---- MODULE Spec2Model ----
(***************************************************************************)
(* Verification model of the SageMaker Feature Store workshop notebooks.   *)
(*                                                                         *)
(* Every notebook is a top-to-bottom sequence of cells; a cell that raises *)
(* (an exception or SystemExit) stops the run, so the cells after it are   *)
(* never executed.  The managed services the cells call are modelled by    *)
(* the state they expose to the notebook (status strings, resources,       *)
(* offline-store rows).                                                    *)
(*                                                                         *)
(* Specifications:                                                         *)
(*   SpecIceberg     m2_nb3_offline_iceberg_compaction.ipynb               *)
(*   FairSpecIceberg the same, the wait function taking its steps          *)
(*   SpecUpdate      m3_nb4_update_feature_group.ipynb (update, ingest,    *)
(*                   deploy, %store, cleanup)                              *)
(*   SpecSearch      feature-metadata notebook: search_features_using_string*)
(*   SpecColumns     batch-scoring notebook: the column list from          *)
(*                   generate_fsets to the transform's input_filter        *)
(*   SpecProcessing  batch-scoring notebook: the processing job that runs  *)
(*                   create_batchdata.py on two instances                  *)
(*   SpecOfflineStore the offline store tables and the two Athena queries  *)
(*                   over them (batch scoring, retraining)                 *)
(*   SpecIcebergQuery the orders table and the Iceberg notebook's query    *)
(*   SpecCompaction  Iceberg notebook: the run of smfs_offline_compaction.py*)
(*   FairSpecCompaction  the same, the script and Athena taking their steps*)
(*   SpecMetadata    feature-metadata notebook: the two update_feature_metadata*)
(*                   calls and the describe_feature_metadata calls         *)
(*   SpecFsets       batch-scoring notebook: generate_fsets on any list of *)
(*                   feature groups and any exclude list                   *)
(***************************************************************************)
EXTENDS Integers, Sequences, FiniteSets, Bags, TLC

VARIABLES
    \* ---- m2_nb3_offline_iceberg_compaction.ipynb ----
    fgStatus,       \* FeatureGroupStatus held by the service for orders_fg
    icPc,           \* index of the next cell of the Iceberg notebook
    icAborted,      \* a cell of the Iceberg notebook raised
    waitPc,         \* position inside wait_for_feature_group_creation_complete
    status,         \* its local variable `status`
    describeCalls,  \* number of feature_group.describe() calls it made
    creatingSeen,   \* number of 'Creating' statuses it read
    ingestCalls,    \* number of orders_fg.ingest calls
    ingestStatus,   \* FeatureGroupStatus at the moment ingest was called
    \* ---- m3_nb4_update_feature_group.ipynb ----
    ufPc,           \* index of the next cell of the update notebook
    ufAborted,      \* a cell of the update notebook raised
    updateOutcome,  \* how the asynchronous UpdateFeatureGroup will end
    updateDuration, \* seconds the service needs to end it
    elapsed,        \* seconds since update_feature_group returned
    customersIngest,\* what customers_fg.ingest did: "none", "ingested", "failed"
    elapsedAtIngest,\* value of elapsed when customers_fg.ingest was called
    models,         \* names of the SageMaker models that exist
    endpointConfigs,\* endpoint configuration name -> the model it names
    endpoints,      \* endpoint name -> status, for the endpoints that exist
    endpoint_name,  \* notebook variable endpoint_name
    stored,         \* the %store database: variable name -> value
    model_name,     \* notebook variable model_name
    deleteCalls,    \* number of delete_* calls made, per resource kind
    trainingJob,    \* status of the training job started by xgb.fit
    predictions,    \* number of predictions the endpoint returned
    \* ---- lineage notebook (reads what the update notebook stored) ----
    lineage_endpoint_name, \* its variable endpoint_name after %store -r
    \* ---- feature-metadata notebook: search ----
    catalog,        \* the feature metadata the service holds
    search_string,  \* argument of search_features_using_string
    searchPc,       \* "idle", "returned" or "raised"
    searchResult,   \* the features in the DataFrame it returned
    \* ---- batch-scoring notebook: columns ----
    featureDefinitions,  \* feature group -> its FeatureDefinitions (names)
    features_names,      \* fsets_df.FeatureName.tolist()
    select_list,         \* the columns the query selects, in order
    dataset_columns,     \* the columns of the CSV the processing job wrote
    model_columns,       \* the columns the transform passes to the model
    colPc,               \* next cell of the column pipeline
    \* ---- batch-scoring notebook: processing job ----
    athenaFiles,    \* the parquet files of the Athena result (rows each)
    shard,          \* file -> the instance that receives it
    instPc,         \* instance -> position in create_batchdata.py
    dataset,        \* instance -> the DataFrame it read (rows)
    localOutput,    \* instance -> files in /opt/ml/processing/output/dataset
    uuidsDrawn,     \* the values uuid.uuid4() has returned
    s3Output,       \* the objects under destination_s3_path
    jobStatus,      \* "InProgress", "Completed" or "Failed"
    \* ---- offline store and the Athena queries ----
    tables,         \* table -> the rows the offline store holds
    clock,          \* time of the next write
    queriesRun,     \* the queries that have run ("batch", "retrain", "iceberg")
    icebergResult,  \* rows of the Iceberg notebook's query
    batchResult,    \* rows of the batch-scoring query
    retrainResult,  \* rows of the retraining query
    \* ---- Iceberg notebook: compaction script ----
    cpPc,           \* position of smfs_offline_compaction.py
    cpTable,        \* its --table argument
    athenaLog,      \* the queries it has issued, each with its outcome
    uncompacted,    \* partitions of the table still to compact
    \* ---- feature-metadata notebook: updates ----
    featureMetadata,  \* the service's metadata of feature is_married
    described,        \* the describe_feature_metadata responses so far
    mdPc,             \* next cell of the metadata updates
    \* ---- batch-scoring notebook: generate_fsets ----
    fsFgList,       \* argument fg_list (feature groups, in order)
    fsExclude,      \* argument exclude_fsets: None, or a list of names
    fsets_df,       \* the FeatureName column of the frame it returned
    fsPc            \* "idle", "called", "returned" or "raised"

icebergVars == <<fgStatus, icPc, icAborted, waitPc, status, describeCalls,
                 creatingSeen, ingestCalls, ingestStatus>>

updateState == <<updateOutcome, updateDuration, elapsed>>
ingestState == <<customersIngest, elapsedAtIngest>>
resources == <<models, endpointConfigs, endpoints>>
notebookNames == <<endpoint_name, stored, model_name>>

updateVars == <<ufPc, ufAborted, updateOutcome, updateDuration, elapsed,
                customersIngest, elapsedAtIngest, models, endpointConfigs,
                endpoints, endpoint_name, stored, model_name, deleteCalls,
                trainingJob, predictions, lineage_endpoint_name>>

searchVars == <<catalog, search_string, searchPc, searchResult>>

columnVars == <<featureDefinitions, features_names, select_list,
                dataset_columns, model_columns, colPc>>

processingVars == <<athenaFiles, shard, instPc, dataset, localOutput,
                    uuidsDrawn, s3Output, jobStatus>>

storeVars ==
    <<tables, clock, queriesRun, batchResult, retrainResult, icebergResult>>

compactionVars == <<cpPc, cpTable, athenaLog, uncompacted>>

metadataVars == <<featureMetadata, described, mdPc>>

fsetsVars == <<fsFgList, fsExclude, fsets_df, fsPc>>

vars == <<icebergVars, updateVars, searchVars, columnVars, processingVars,
          storeVars, compactionVars, metadataVars, fsetsVars>>

(***************************************************************************)
(* Bounds                                                                  *)
(***************************************************************************)
\* most describe() calls one run of the polling loop is followed for
MaxPolls == 4
\* the update of the feature group takes 1..MaxUpdateSteps steps of StepSeconds
MaxUpdateSteps == 5
StepSeconds == 30
\* longest string (feature name, description, parameter, search string)
MaxStrLen == 2
\* most parquet files in the Athena result, most rows in one file
MaxFiles == 2
MaxFileRows == 2
\* most writes to the offline store after the first ingestion, latest event time
MaxWrites == 3
MaxEventTime == 2
\* most partitions of the table that await compaction
MaxPartitions == 4
\* most feature definitions of a group, most groups in fg_list
MaxDefinitions == 2
MaxGroups == 2

(***************************************************************************)
(* m2_nb3_offline_iceberg_compaction.ipynb                                 *)
(***************************************************************************)

\* The statuses DescribeFeatureGroup reports; "None" before create() and
\* "Deleted" once the group is gone (describe() then raises) are not statuses
\* but the absence of the resource.
FeatureGroupStatuses ==
    {"Creating", "Created", "CreateFailed", "Deleting", "DeleteFailed"}

\* (mutant) the ingest cell placed before the wait cell
IcebergCellsIngestBeforeWait == <<"create", "ingest", "wait">>

\* The cells of the notebook that act on the feature group, in file order.
IcebergCells == <<"create", "wait", "ingest">>

IcebergCell ==
    IF ~icAborted /\ icPc <= Len(IcebergCells) THEN IcebergCells[icPc] ELSE "none"

\* What the Iceberg notebook never touches.
IcebergFrame ==
    UNCHANGED <<updateVars, searchVars, columnVars, processingVars, storeVars,
                compactionVars,
                metadataVars, fsetsVars>>

IcebergInit ==
    /\ fgStatus = "None"
    /\ icPc = 1
    /\ icAborted = FALSE
    /\ waitPc = "idle"
    /\ status = "unset"
    /\ describeCalls = 0
    /\ creatingSeen = 0
    /\ ingestCalls = 0
    /\ ingestStatus = "none"

\* orders_feature_group_iceberg.create(...): the service starts creating.
CreateFeatureGroup ==
    /\ IcebergFrame
    /\ IcebergCell = "create"
    /\ fgStatus = "None"
    /\ fgStatus' = "Creating"
    /\ icPc' = icPc + 1
    /\ UNCHANGED <<icAborted, waitPc, status, describeCalls, creatingSeen,
                   ingestCalls, ingestStatus>>

\* The service finishes the asynchronous creation, one way or the other.
ServiceCreationEnds ==
    /\ IcebergFrame
    /\ fgStatus = "Creating"
    /\ fgStatus' \in {"Created", "CreateFailed"}
    /\ UNCHANGED <<icPc, icAborted, waitPc, status, describeCalls,
                   creatingSeen, ingestCalls, ingestStatus>>

\* The group is deleted from outside the notebook (console, another user):
\* Created -> Deleting -> gone or DeleteFailed.
ServiceDeletion ==
    /\ IcebergFrame
    /\ \/ fgStatus = "Created" /\ fgStatus' = "Deleting"
       \/ fgStatus = "Deleting" /\ fgStatus' \in {"Deleted", "DeleteFailed"}
    /\ UNCHANGED <<icPc, icAborted, waitPc, status, describeCalls,
                   creatingSeen, ingestCalls, ingestStatus>>

\* feature_group.describe().get('FeatureGroupStatus'): the status the service
\* holds now; describe() raises when the group does not exist.
DescribeRaises == fgStatus \notin FeatureGroupStatuses

\* (mutant) the loop body never runs
WaitLoopConditionNever(s) == FALSE

\* `while status == 'Creating'`
WaitLoopCondition(s) == s = "Creating"

\* (mutant) the exit test names the failure status instead of excluding
\* everything but 'Created'
WaitRaisesSystemExitOnCreateFailedOnly(s) == s = "CreateFailed"

\* `if status != 'Created': raise SystemExit(...)`
WaitRaisesSystemExit(s) == s # "Created"

\* wait_for_feature_group_creation_complete(orders_fg), entry: the first
\* describe() (line 333).
WaitInitialDescribe ==
    /\ IcebergFrame
    /\ IcebergCell = "wait"
    /\ waitPc = "idle"
    /\ IF DescribeRaises
       THEN /\ waitPc' = "raised"
            /\ icAborted' = TRUE
            /\ UNCHANGED <<status, describeCalls, creatingSeen>>
       ELSE /\ status' = fgStatus
            /\ describeCalls' = describeCalls + 1
            /\ creatingSeen' = creatingSeen + (IF fgStatus = "Creating" THEN 1 ELSE 0)
            /\ waitPc' = "loop"
            /\ UNCHANGED icAborted
    /\ UNCHANGED <<fgStatus, icPc, ingestCalls, ingestStatus>>

\* One iteration of the loop: time.sleep(5), then describe() again.
WaitPoll ==
    /\ IcebergFrame
    /\ IcebergCell = "wait"
    /\ waitPc = "loop"
    /\ WaitLoopCondition(status)
    /\ describeCalls < MaxPolls \/ fgStatus # "Creating"
    /\ IF DescribeRaises
       THEN /\ waitPc' = "raised"
            /\ icAborted' = TRUE
            /\ UNCHANGED <<status, describeCalls, creatingSeen>>
       ELSE /\ status' = fgStatus
            /\ describeCalls' = describeCalls + 1
            /\ creatingSeen' = creatingSeen + (IF fgStatus = "Creating" THEN 1 ELSE 0)
            /\ UNCHANGED <<waitPc, icAborted>>
    /\ UNCHANGED <<fgStatus, icPc, ingestCalls, ingestStatus>>

\* Loop exit: SystemExit unless the status is 'Created', else a normal return
\* and the notebook moves on to the next cell.
WaitFinish ==
    /\ IcebergFrame
    /\ IcebergCell = "wait"
    /\ waitPc = "loop"
    /\ ~WaitLoopCondition(status)
    /\ IF WaitRaisesSystemExit(status)
       THEN /\ waitPc' = "exited"
            /\ icAborted' = TRUE
            /\ UNCHANGED icPc
       ELSE /\ waitPc' = "returned"
            /\ icPc' = icPc + 1
            /\ UNCHANGED icAborted
    /\ UNCHANGED <<fgStatus, status, describeCalls, creatingSeen, ingestCalls,
                   ingestStatus>>

\* orders_fg.ingest(data_frame=order_data, max_processes=16, wait=True): fails
\* (and stops the run) unless the group is there and created.
IngestOrders ==
    /\ IcebergFrame
    /\ IcebergCell = "ingest"
    /\ ingestCalls' = ingestCalls + 1
    /\ ingestStatus' = fgStatus
    /\ IF fgStatus = "Created"
       THEN icPc' = icPc + 1 /\ UNCHANGED icAborted
       ELSE icAborted' = TRUE /\ UNCHANGED icPc
    /\ UNCHANGED <<fgStatus, waitPc, status, describeCalls, creatingSeen>>

IcebergNext ==
    \/ CreateFeatureGroup
    \/ ServiceCreationEnds
    \/ ServiceDeletion
    \/ WaitInitialDescribe
    \/ WaitPoll
    \/ WaitFinish
    \/ IngestOrders


(***************************************************************************)
(* m3_nb4_update_feature_group.ipynb                                       *)
(***************************************************************************)

\* time.sleep(60)
SleepSeconds == 60

\* The name xgb.deploy gives the model, the endpoint configuration and the
\* endpoint it creates (one generated name for the three).
DeployedName == "reorder-classifier"

\* The name of the training job xgb.fit starts (base_job_name).
TrainingJobName == "reorder-classifier-job"

\* f with the key k set to v
With(f, k, v) == [x \in DOMAIN f \cup {k} |-> IF x = k THEN v ELSE f[x]]

\* f without the key k
Without(f, k) == [x \in DOMAIN f \ {k} |-> f[x]]

\* (mutant) the endpoint configuration deleted before its model name is read
UpdateCellsConfigDeletedFirst ==
    <<"update_feature_group", "sleep", "describe_feature_group", "ingest",
      "fit", "store_training_jobName", "deploy", "store_endpoint_name",
      "predict", "delete_endpoint_config", "describe_endpoint_config",
      "delete_model", "delete_endpoint">>

\* The cells of the notebook that act on the modelled state, in file order.
UpdateCells ==
    <<"update_feature_group", "sleep", "describe_feature_group", "ingest",
      "fit", "store_training_jobName", "deploy", "store_endpoint_name",
      "predict", "describe_endpoint_config",
      "delete_model", "delete_endpoint", "delete_endpoint_config">>

UpdateCell ==
    IF ~ufAborted /\ ufPc <= Len(UpdateCells) THEN UpdateCells[ufPc] ELSE "none"

\* The notebook has run to its end.
UpdateFinished == ~ufAborted /\ ufPc = Len(UpdateCells) + 1

\* What the update notebook never touches.
UpdateFrame ==
    UNCHANGED <<icebergVars, searchVars, columnVars, processingVars, storeVars,
                compactionVars,
                metadataVars, fsetsVars>>

\* The durations the asynchronous update may take.
UpdateDurations == {k * StepSeconds : k \in 1..MaxUpdateSteps}

\* 'has_kids' is a feature of the customers feature group t seconds after
\* update_feature_group returned.
HasKidsAdded(t) == updateOutcome = "Successful" /\ t >= updateDuration

UpdateInit ==
    /\ ufPc = 1
    /\ ufAborted = FALSE
    /\ updateOutcome = "none"
    /\ updateDuration = 0
    /\ elapsed = 0
    /\ customersIngest = "none"
    /\ elapsedAtIngest = 0
    /\ models = {}
    /\ endpointConfigs = <<>>
    /\ endpoints = <<>>
    /\ endpoint_name = "unset"
    /\ stored = <<>>
    /\ model_name = "unset"
    /\ deleteCalls = [k \in {"model", "endpoint", "endpoint_config"} |-> 0]
    /\ trainingJob = "none"
    /\ predictions = 0
    /\ lineage_endpoint_name = "unset"

\* The cell at ufPc ran to its end.
CellDone == ufPc' = ufPc + 1 /\ UNCHANGED ufAborted

\* The cell at ufPc raised: the run stops there.
CellRaised == ufAborted' = TRUE /\ UNCHANGED ufPc

\* sagemaker_runtime.update_feature_group(FeatureAdditions=[has_kids]): returns
\* at once; the service ends the update later, after a time of its own.
UpdateFeatureGroup ==
    /\ UpdateFrame
    /\ UpdateCell = "update_feature_group"
    /\ updateOutcome' \in {"Successful", "Failed"}
    /\ updateDuration' \in UpdateDurations
    /\ elapsed' = 0
    /\ CellDone
    /\ UNCHANGED <<ingestState, resources, notebookNames, deleteCalls,
                   trainingJob, predictions, lineage_endpoint_name>>

\* (mutant) the sleep cell left out: the run goes on without waiting
SleepSkipped ==
    /\ UpdateFrame
    /\ UpdateCell = "sleep"
    /\ CellDone
    /\ UNCHANGED <<updateState, ingestState, resources, notebookNames,
                   deleteCalls, trainingJob, predictions, lineage_endpoint_name>>

\* time.sleep(60): a fixed wait, whatever the update is doing.
Sleep ==
    /\ UpdateFrame
    /\ UpdateCell = "sleep"
    /\ elapsed' = elapsed + SleepSeconds
    /\ CellDone
    /\ UNCHANGED <<updateOutcome, updateDuration, ingestState, resources,
                   notebookNames, deleteCalls, trainingJob, predictions,
                   lineage_endpoint_name>>

\* describe_feature_group + pprint, then the cells that build customers_df:
\* the result is printed, never tested; the cells take some time to run.
DescribeFeatureGroup ==
    /\ UpdateFrame
    /\ UpdateCell = "describe_feature_group"
    /\ elapsed' \in {elapsed, elapsed + StepSeconds}
    /\ CellDone
    /\ UNCHANGED <<updateOutcome, updateDuration, ingestState, resources,
                   notebookNames, deleteCalls, trainingJob, predictions,
                   lineage_endpoint_name>>

\* customers_fg.ingest(data_frame=customers_df, max_processes=16, wait=True):
\* the records carry 'has_kids'; the service rejects them while the feature is
\* not in the group, and ingest then raises.
IngestCustomers ==
    /\ UpdateFrame
    /\ UpdateCell = "ingest"
    /\ elapsedAtIngest' = elapsed
    /\ IF HasKidsAdded(elapsed)
       THEN customersIngest' = "ingested" /\ CellDone
       ELSE customersIngest' = "failed" /\ CellRaised
    /\ UNCHANGED <<updateState, resources, notebookNames, deleteCalls,
                   trainingJob, predictions, lineage_endpoint_name>>

\* xgb.fit({'train': ..., 'validation': ...}): waits for the training job and
\* raises when it fails.
Fit ==
    /\ UpdateFrame
    /\ UpdateCell = "fit"
    /\ trainingJob' \in {"Completed", "Failed"}
    /\ IF trainingJob' = "Completed" THEN CellDone ELSE CellRaised
    /\ UNCHANGED <<updateState, ingestState, resources, notebookNames,
                   deleteCalls, predictions, lineage_endpoint_name>>

\* training_jobName = training_job_info["TrainingJobName"]; %store training_jobName
StoreTrainingJobName ==
    /\ UpdateFrame
    /\ UpdateCell = "store_training_jobName"
    /\ stored' = With(stored, "training_jobName", TrainingJobName)
    /\ CellDone
    /\ UNCHANGED <<updateState, ingestState, resources, endpoint_name,
                   model_name, deleteCalls, trainingJob, predictions,
                   lineage_endpoint_name>>

\* xgb.deploy(initial_instance_count=2, instance_type='ml.m5.xlarge'): creates
\* a model, an endpoint configuration naming that model, and an endpoint, and
\* waits for the endpoint; it raises when the endpoint fails to come up.
Deploy ==
    /\ UpdateFrame
    /\ UpdateCell = "deploy"
    /\ models' = models \cup {DeployedName}
    /\ endpointConfigs' = With(endpointConfigs, DeployedName, DeployedName)
    /\ \E ok \in BOOLEAN :
          IF ok
          THEN endpoints' = With(endpoints, DeployedName, "InService") /\ CellDone
          ELSE endpoints' = With(endpoints, DeployedName, "Failed") /\ CellRaised
    /\ UNCHANGED <<updateState, ingestState, notebookNames, deleteCalls,
                   trainingJob, predictions, lineage_endpoint_name>>

\* endpoint_name = xgb_predictor.endpoint_name; %store endpoint_name
StoreEndpointName ==
    /\ UpdateFrame
    /\ UpdateCell = "store_endpoint_name"
    /\ endpoint_name' = DeployedName
    /\ stored' = With(stored, "endpoint_name", DeployedName)
    /\ CellDone
    /\ UNCHANGED <<updateState, ingestState, resources, model_name,
                   deleteCalls, trainingJob, predictions, lineage_endpoint_name>>

\* predictor.predict(payload): answered by the endpoint while it is in service.
Predict ==
    /\ UpdateFrame
    /\ UpdateCell = "predict"
    /\ IF endpoint_name \in DOMAIN endpoints /\ endpoints[endpoint_name] = "InService"
       THEN predictions' = predictions + 1 /\ CellDone
       ELSE UNCHANGED predictions /\ CellRaised
    /\ UNCHANGED <<updateState, ingestState, resources, notebookNames,
                   deleteCalls, trainingJob, lineage_endpoint_name>>

\* response = describe_endpoint_config(EndpointConfigName=endpoint_name);
\* model_name = response['ProductionVariants'][0]['ModelName'].  Raises when
\* there is no such configuration.
DescribeEndpointConfig ==
    /\ UpdateFrame
    /\ UpdateCell = "describe_endpoint_config"
    /\ IF endpoint_name \in DOMAIN endpointConfigs
       THEN model_name' = endpointConfigs[endpoint_name] /\ CellDone
       ELSE UNCHANGED model_name /\ CellRaised
    /\ UNCHANGED <<updateState, ingestState, resources, endpoint_name, stored,
                   deleteCalls, trainingJob, predictions, lineage_endpoint_name>>

\* sagemaker_runtime.delete_model(ModelName=model_name): raises when there is
\* no such model.
DeleteModel ==
    /\ UpdateFrame
    /\ UpdateCell = "delete_model"
    /\ deleteCalls' = [deleteCalls EXCEPT !["model"] = @ + 1]
    /\ IF model_name \in models
       THEN models' = models \ {model_name} /\ CellDone
       ELSE UNCHANGED models /\ CellRaised
    /\ UNCHANGED <<updateState, ingestState, endpointConfigs, endpoints,
                   notebookNames, trainingJob, predictions,
                   lineage_endpoint_name>>

\* sagemaker_runtime.delete_endpoint(EndpointName=endpoint_name): raises when
\* there is no such endpoint.
DeleteEndpoint ==
    /\ UpdateFrame
    /\ UpdateCell = "delete_endpoint"
    /\ deleteCalls' = [deleteCalls EXCEPT !["endpoint"] = @ + 1]
    /\ IF endpoint_name \in DOMAIN endpoints
       THEN endpoints' = Without(endpoints, endpoint_name) /\ CellDone
       ELSE UNCHANGED endpoints /\ CellRaised
    /\ UNCHANGED <<updateState, ingestState, models, endpointConfigs,
                   notebookNames, trainingJob, predictions,
                   lineage_endpoint_name>>

\* sagemaker_runtime.delete_endpoint_config(EndpointConfigName=endpoint_name):
\* raises when there is no such configuration.
DeleteEndpointConfig ==
    /\ UpdateFrame
    /\ UpdateCell = "delete_endpoint_config"
    /\ deleteCalls' = [deleteCalls EXCEPT !["endpoint_config"] = @ + 1]
    /\ IF endpoint_name \in DOMAIN endpointConfigs
       THEN endpointConfigs' = Without(endpointConfigs, endpoint_name) /\ CellDone
       ELSE UNCHANGED endpointConfigs /\ CellRaised
    /\ UNCHANGED <<updateState, ingestState, models, endpoints, notebookNames,
                   trainingJob, predictions, lineage_endpoint_name>>

\* The lineage notebook, run after the update notebook: %store -r endpoint_name
\* gives its endpoint_name the persisted value, which it then passes to
\* MLLineageHelper as the name of the model and endpoint to look up.
RestoreEndpointName ==
    /\ UpdateFrame
    /\ UpdateFinished
    /\ "endpoint_name" \in DOMAIN stored
    /\ lineage_endpoint_name = "unset"
    /\ lineage_endpoint_name' = stored["endpoint_name"]
    /\ UNCHANGED <<ufPc, ufAborted, updateState, ingestState, resources,
                   notebookNames, deleteCalls, trainingJob, predictions>>

UpdateNext ==
    \/ UpdateFeatureGroup
    \/ Sleep
    \/ DescribeFeatureGroup
    \/ IngestCustomers
    \/ Fit
    \/ StoreTrainingJobName
    \/ Deploy
    \/ StoreEndpointName
    \/ Predict
    \/ DescribeEndpointConfig
    \/ DeleteModel
    \/ DeleteEndpoint
    \/ DeleteEndpointConfig
    \/ RestoreEndpointName


(***************************************************************************)
(* Feature-metadata notebook: search_features_using_string                 *)
(***************************************************************************)

\* Strings are sequences over a two-letter alphabet.
Alphabet == {"m", "x"}

\* The strings of 1..n letters.
Strings(n) == UNION {[1..k -> Alphabet] : k \in 1..n}

\* The feature 'is_married' after the notebook's two update_feature_metadata
\* calls: a description and parameters.
IsMarried ==
    [FeatureName |-> <<"m">>,
     Description |-> <<"x", "m">>,
     Parameters  |-> {[Key |-> <<"x">>, Value |-> <<"x", "x">>]}]

\* What one feature's metadata can be: a name, a description (empty when
\* none was set) and at most one key/value parameter.
FeatureMetadata ==
    [FeatureName : Strings(MaxStrLen),
     Description : Strings(MaxStrLen) \cup {<<>>},
     Parameters  : {{}} \cup {{[Key |-> k, Value |-> v]} :
                                k \in Strings(1), v \in Strings(MaxStrLen)}]

\* What the search notebook never touches.
SearchFrame ==
    UNCHANGED <<icebergVars, updateVars, columnVars, processingVars, storeVars,
                compactionVars,
                metadataVars, fsetsVars>>

SearchIdle ==
    /\ catalog = {}
    /\ search_string = <<>>
    /\ searchPc = "idle"
    /\ searchResult = {}

SearchInit ==
    /\ \E f \in FeatureMetadata : catalog = {IsMarried, f}
    /\ search_string \in Strings(MaxStrLen)
    /\ searchPc = "idle"
    /\ searchResult = {}

\* Operator 'Contains': the value occurs in the field as a substring.
Contains(field, value) ==
    \E i \in 0..(Len(field) - Len(value)) :
        SubSeq(field, i + 1, i + Len(value)) = value

\* 'Filters': the three filters of the SearchExpression.
Filters(s) ==
    <<[Name |-> "FeatureName",   Operator |-> "Contains", Value |-> s],
      [Name |-> "Description",   Operator |-> "Contains", Value |-> s],
      [Name |-> "AllParameters", Operator |-> "Contains", Value |-> s]>>

\* (mutant) the filters combined with And
SearchExpressionOperatorAnd == "And"

\* "Operator": "Or"
SearchExpressionOperator == "Or"

\* One filter applied to one feature's metadata.
FilterMatches(f, flt) ==
    CASE flt.Name = "FeatureName" -> Contains(f.FeatureName, flt.Value)
      [] flt.Name = "Description" -> Contains(f.Description, flt.Value)
      [] flt.Name = "AllParameters" ->
            \E p \in f.Parameters :
                Contains(p.Key, flt.Value) \/ Contains(p.Value, flt.Value)

\* sagemaker_client.search(Resource="FeatureMetadata", SearchExpression=...):
\* the features the expression selects.
Search(filters, operator) ==
    {f \in catalog :
        IF operator = "Or"
        THEN \E i \in DOMAIN filters : FilterMatches(f, filters[i])
        ELSE \A i \in DOMAIN filters : FilterMatches(f, filters[i])}

\* search_features_using_string(search_string): the search, then the results
\* as a DataFrame without the FeatureGroupArn column.  With no result the
\* DataFrame has no columns and drop('FeatureGroupArn', axis=1) raises KeyError.
SearchFeaturesUsingString ==
    /\ SearchFrame
    /\ searchPc = "idle"
    /\ LET Results == Search(Filters(search_string), SearchExpressionOperator)
       IN  IF Results = {}
           THEN searchPc' = "raised" /\ UNCHANGED searchResult
           ELSE searchPc' = "returned" /\ searchResult' = Results
    /\ UNCHANGED <<catalog, search_string>>

SearchNext == SearchFeaturesUsingString

(***************************************************************************)
(* Batch-scoring notebook: from generate_fsets to the transform's input    *)
(***************************************************************************)

\* The elements of a sequence.
Range(seq) == {seq[i] : i \in DOMAIN seq}

\* exclude_fsets
exclude_fsets ==
    {"customer_id", "product_id", "order_id", "event_time",
     "purchase_amount", "n_days_since_last_purchase"}

\* The columns of the orders feature group (those the retraining notebook
\* drops from its join, and the target it moves to the front).
OrdersFeatures ==
    <<"order_id", "customer_id", "product_id", "purchase_amount",
      "is_reordered", "event_time", "n_days_since_last_purchase">>

\* The target of the model: the column the training data starts with.
Target == "is_reordered"

\* orders_fg["RecordIdentifierFeatureName"]
order_uid == "order_id"

\* The customers feature group before and after update_feature_group added
\* 'has_kids' (an update appends the new feature).
CustomersFeatures ==
    {<<"customer_id", "is_married", "event_time">>,
     <<"customer_id", "is_married", "event_time", "has_kids">>}

\* The products feature group: its identifier, its event time, one feature.
ProductsFeatures == <<"product_id", "event_time", "category">>

\* What the column pipeline never touches.
ColumnFrame ==
    UNCHANGED <<icebergVars, updateVars, searchVars, processingVars, storeVars,
                compactionVars,
                metadataVars, fsetsVars>>

ColumnIdle ==
    /\ featureDefinitions = <<>>
    /\ features_names = <<>>
    /\ select_list = <<>>
    /\ dataset_columns = <<>>
    /\ model_columns = <<>>
    /\ colPc = "idle"

\* The feature groups as describe_feature_group reports them: the orders
\* columns in any order of definition.
ColumnInit ==
    /\ \E p \in Permutations(DOMAIN OrdersFeatures), c \in CustomersFeatures :
          featureDefinitions =
              [fg \in {"orders", "customers", "products"} |->
                  CASE fg = "orders" ->
                          [i \in DOMAIN OrdersFeatures |-> OrdersFeatures[p[i]]]
                    [] fg = "customers" -> c
                    [] fg = "products" -> ProductsFeatures]
    /\ features_names = <<>>
    /\ select_list = <<>>
    /\ dataset_columns = <<>>
    /\ model_columns = <<>>
    /\ colPc = "generate_fsets"

\* (mutant) the filter keeps every row
NotInKeepsAll(names, excluded) == names

\* _fg_tmp[~_fg_tmp.FeatureName.isin(exclude_fsets)]
RECURSIVE NotIn(_, _)
NotIn(names, excluded) ==
    IF names = <<>> THEN <<>>
    ELSE IF Head(names) \in excluded
         THEN NotIn(Tail(names), excluded)
         ELSE <<Head(names)>> \o NotIn(Tail(names), excluded)

\* generate_fsets(fg_list, exclude_fsets): the definitions of each group of
\* the list, less the excluded names, concatenated in the list's order.
RECURSIVE generate_fsets(_, _)
generate_fsets(fg_list, excluded) ==
    IF fg_list = <<>> THEN <<>>
    ELSE (IF excluded # {}
          THEN NotIn(featureDefinitions[Head(fg_list)], excluded)
          ELSE featureDefinitions[Head(fg_list)])
             \o generate_fsets(Tail(fg_list), excluded)

\* (mutant) the customers group listed first
FgListCustomersFirst == <<"customers", "orders", "products">>

\* [orders_fg, customers_fg, products_fg]
FgList == <<"orders", "customers", "products">>

\* fsets_df = generate_fsets([...], exclude_fsets); features_names = ...tolist()
GenerateFsets ==
    /\ ColumnFrame
    /\ colPc = "generate_fsets"
    /\ features_names' = generate_fsets(FgList, exclude_fsets)
    /\ colPc' = "query_string"
    /\ UNCHANGED <<featureDefinitions, select_list, dataset_columns,
                   model_columns>>

\* SELECT DISTINCT "{order_uid}", {batch_transform_columns_string}
QueryString ==
    /\ ColumnFrame
    /\ colPc = "query_string"
    /\ select_list' = <<order_uid>> \o features_names
    /\ colPc' = "processing"
    /\ UNCHANGED <<featureDefinitions, features_names, dataset_columns,
                   model_columns>>

\* create_batchdata.py: read_parquet, then to_csv(index=False, header=False):
\* the CSV has the query's columns in the query's order.
CreateBatchdata ==
    /\ ColumnFrame
    /\ colPc = "processing"
    /\ dataset_columns' = select_list
    /\ colPc' = "transform"
    /\ UNCHANGED <<featureDefinitions, features_names, select_list,
                   model_columns>>

\* input_filter="$[2:]": a row's elements from index 2 (0-based) on.
InputFilter(row) == SubSeq(row, 3, Len(row))

\* xgb_transformer.transform(..., input_filter="$[2:]", join_source="Input")
Transform ==
    /\ ColumnFrame
    /\ colPc = "transform"
    /\ model_columns' = InputFilter(dataset_columns)
    /\ colPc' = "done"
    /\ UNCHANGED <<featureDefinitions, features_names, select_list,
                   dataset_columns>>

ColumnNext == GenerateFsets \/ QueryString \/ CreateBatchdata \/ Transform

(***************************************************************************)
(* Batch-scoring notebook: the processing job                              *)
(***************************************************************************)

\* instance_count=2
InstanceCount == 2

Instances == 1..InstanceCount

\* The rows a result can hold (a result may hold equal rows).
RowValues == {"r1", "r2"}

\* The values uuid.uuid4() can return.
Uuids == {"u1", "u2", "u3"}

\* (mutant) every instance receives every file
DataDistributionTypeFullyReplicated == "FullyReplicated"

\* data_distribution_type="ShardedByS3Key"
DataDistributionType == "ShardedByS3Key"

\* What the processing job never touches.
ProcessingFrame ==
    UNCHANGED <<icebergVars, updateVars, searchVars, columnVars, storeVars,
                compactionVars,
                metadataVars, fsetsVars>>

ProcessingIdle ==
    /\ athenaFiles = <<>>
    /\ shard = <<>>
    /\ instPc = <<>>
    /\ dataset = <<>>
    /\ localOutput = <<>>
    /\ uuidsDrawn = {}
    /\ s3Output = <<>>
    /\ jobStatus = "None"

\* The job starts with the Athena result written as parquet files and each
\* file assigned to one instance.
ProcessingInit ==
    /\ \E n \in 0..MaxFiles :
          /\ athenaFiles \in
                [1..n -> UNION {[1..k -> RowValues] : k \in 0..MaxFileRows}]
          /\ shard \in [1..n -> Instances]
    /\ instPc = [i \in Instances |-> "read_parquet"]
    /\ dataset = [i \in Instances |-> <<>>]
    /\ localOutput = [i \in Instances |-> <<>>]
    /\ uuidsDrawn = {}
    /\ s3Output = <<>>
    /\ jobStatus = "InProgress"

\* The files copied to /opt/ml/processing/athena of instance i.
InstanceInput(i) ==
    IF DataDistributionType = "ShardedByS3Key"
    THEN {f \in DOMAIN athenaFiles : shard[f] = i}
    ELSE DOMAIN athenaFiles

\* The rows of the given files, file after file.
RECURSIVE ReadFiles(_)
ReadFiles(files) ==
    IF files = {} THEN <<>>
    ELSE LET f == CHOOSE x \in files : \A y \in files : x <= y
         IN  athenaFiles[f] \o ReadFiles(files \ {f})

\* dataset = pd.read_parquet(args.athena_data, engine="pyarrow").  On a
\* directory without files the call returns an empty frame or raises,
\* depending on the library version.
ReadParquet(i) ==
    /\ ProcessingFrame
    /\ jobStatus = "InProgress"
    /\ instPc[i] = "read_parquet"
    /\ \/ /\ dataset' = [dataset EXCEPT ![i] = ReadFiles(InstanceInput(i))]
          /\ instPc' = [instPc EXCEPT ![i] = "to_csv"]
          /\ UNCHANGED jobStatus
       \/ /\ InstanceInput(i) = {}
          /\ instPc' = [instPc EXCEPT ![i] = "raised"]
          /\ jobStatus' = "Failed"
          /\ UNCHANGED dataset
    /\ UNCHANGED <<athenaFiles, shard, localOutput, uuidsDrawn, s3Output>>

\* f"dataset-{uuid.uuid4()}.csv"
DatasetFileName(u) == <<"dataset-", u, ".csv">>

\* dataset.to_csv(dataset_output_path / f"dataset-{uuid.uuid4()}.csv", ...):
\* one file in the instance's own output directory.  uuid4 returns a value
\* it has not returned before.
ToCsv(i) ==
    /\ ProcessingFrame
    /\ jobStatus = "InProgress"
    /\ instPc[i] = "to_csv"
    /\ \E u \in Uuids \ uuidsDrawn :
          /\ uuidsDrawn' = uuidsDrawn \cup {u}
          /\ localOutput' =
                [localOutput EXCEPT
                    ![i] = With(localOutput[i], DatasetFileName(u), dataset[i])]
    /\ instPc' = [instPc EXCEPT ![i] = "exited"]
    /\ UNCHANGED <<athenaFiles, shard, dataset, s3Output, jobStatus>>

\* The objects after the files of one output directory are uploaded: an
\* object of the same key is replaced.
RECURSIVE Uploaded(_, _)
Uploaded(objects, files) ==
    IF DOMAIN files = {} THEN objects
    ELSE LET k == CHOOSE x \in DOMAIN files : TRUE
         IN  Uploaded(With(objects, k, files[k]), Without(files, k))

\* ProcessingOutput(source="/opt/ml/processing/output/dataset",
\* destination=destination_s3_path): the service uploads the instance's
\* output directory when its container has exited.
UploadOutput(i) ==
    /\ ProcessingFrame
    /\ jobStatus = "InProgress"
    /\ instPc[i] = "exited"
    /\ s3Output' = Uploaded(s3Output, localOutput[i])
    /\ instPc' = [instPc EXCEPT ![i] = "uploaded"]
    /\ UNCHANGED <<athenaFiles, shard, dataset, localOutput, uuidsDrawn,
                   jobStatus>>

\* create_batchdata_processor.run(...) returns when every instance is done.
JobCompletes ==
    /\ ProcessingFrame
    /\ jobStatus = "InProgress"
    /\ \A i \in Instances : instPc[i] = "uploaded"
    /\ jobStatus' = "Completed"
    /\ UNCHANGED <<athenaFiles, shard, instPc, dataset, localOutput,
                   uuidsDrawn, s3Output>>

ProcessingNext ==
    \/ \E i \in Instances : ReadParquet(i) \/ ToCsv(i) \/ UploadOutput(i)
    \/ JobCompletes

(***************************************************************************)
(* The offline store tables and the Athena queries over them               *)
(***************************************************************************)

TableNames == {"customers", "products", "orders"}

\* The one record each table holds versions of (the order is the customer's
\* order of the product).
RecordId == [customers |-> "c1", products |-> "p1", orders |-> "o1"]

\* The values of customers.has_kids: not populated, or 0/1.
HasKidsValues == {"null", "0", "1"}

\* A row of an offline store table: the record's columns (its identifier,
\* 'features' standing for the values of this version, has_kids for a
\* customer) and the columns the store adds.
Row(t, et, now, delay, deleted, hk) ==
    [id |-> RecordId[t],
     customer_id |-> RecordId["customers"],
     product_id |-> RecordId["products"],
     features |-> now,
     has_kids |-> hk,
     event_time |-> et,
     api_invocation_time |-> now,
     write_time |-> now + delay,
     is_deleted |-> deleted]

\* What the store and the queries never touch.
StoreFrame ==
    UNCHANGED <<icebergVars, updateVars, searchVars, columnVars,
                processingVars, compactionVars,
                metadataVars, fsetsVars>>

StoreIdle ==
    /\ tables = <<>>
    /\ clock = 0
    /\ queriesRun = {}
    /\ batchResult = {}
    /\ retrainResult = {}
    /\ icebergResult = {}

\* The tables after the first ingestion of the workshop: one version of each
\* record, has_kids not yet a feature.
StoreInit ==
    /\ tables = [t \in TableNames |-> {Row(t, 1, 0, 0, FALSE, "null")}]
    /\ clock = 1
    /\ queriesRun = {}
    /\ batchResult = {}
    /\ retrainResult = {}
    /\ icebergResult = {}

\* No query has run yet and the store accepts another write.
Writable ==
    /\ queriesRun = {}
    /\ clock <= MaxWrites

\* ingest / put_record: the offline store appends a version of the record.
PutRecord(t) ==
    /\ StoreFrame
    /\ Writable
    /\ \E et \in 1..MaxEventTime, delay \in {0, 1}, hk \in HasKidsValues :
          /\ hk # "null" => t = "customers"
          /\ tables' = [tables EXCEPT
                           ![t] = @ \cup {Row(t, et, clock, delay, FALSE, hk)}]
    /\ clock' = clock + 1
    /\ UNCHANGED <<queriesRun, batchResult, retrainResult, icebergResult>>

\* delete_record: the offline store appends a row with is_deleted set.
DeleteRecord(t) ==
    /\ StoreFrame
    /\ Writable
    /\ \E et \in 1..MaxEventTime :
          tables' = [tables EXCEPT
                        ![t] = @ \cup {Row(t, et, clock, 0, TRUE, "null")}]
    /\ clock' = clock + 1
    /\ UNCHANGED <<queriesRun, batchResult, retrainResult, icebergResult>>

\* ORDER BY event_time DESC, api_invocation_time DESC, write_time DESC:
\* row a sorts before row b.
SortsBefore(a, b) ==
    \/ a.event_time > b.event_time
    \/ /\ a.event_time = b.event_time
       /\ a.api_invocation_time > b.api_invocation_time
    \/ /\ a.event_time = b.event_time
       /\ a.api_invocation_time = b.api_invocation_time
       /\ a.write_time > b.write_time

\* dense_rank() OVER (PARTITION BY uid ORDER BY ...) of row r among rows.
DenseRank(r, rows) ==
    1 + Cardinality({<<x.event_time, x.api_invocation_time, x.write_time>> :
                        x \in {y \in rows : y.id = r.id /\ SortsBefore(y, r)}})

\* customer_table / product_table / order_table: the rows that are not
\* deleted, each with its rank among them.
RankedTable(t) ==
    LET live == {r \in tables[t] : ~r.is_deleted}
    IN  {[row |-> r, rank |-> DenseRank(r, live)] : r \in live}

\* The batch-scoring query: the join of the three ranked tables, rank 1 of
\* each, then SELECT DISTINCT of the identifier and the feature columns.
BatchQuery ==
    {[order_id |-> o.row.id,
      order_features |-> o.row.features,
      customer_features |-> c.row.features,
      product_features |-> p.row.features] :
        <<c, p, o>> \in
            {x \in RankedTable("customers") \X RankedTable("products")
                     \X RankedTable("orders") :
                /\ x[3].row.customer_id = x[1].row.id
                /\ x[3].row.product_id = x[2].row.id
                /\ x[1].rank = 1
                /\ x[2].rank = 1
                /\ x[3].rank = 1}}

\* The processing job runs the batch-scoring query.
RunBatchQuery ==
    /\ StoreFrame
    /\ "batch" \notin queriesRun
    /\ batchResult' = BatchQuery
    /\ queriesRun' = queriesRun \cup {"batch"}
    /\ UNCHANGED <<tables, clock, retrainResult, icebergResult>>

\* The retraining query: SELECT * FROM customers, products, orders WHERE the
\* join conditions hold AND customers.has_kids is not null.
RetrainQuery ==
    {[customer |-> x[1], product |-> x[2], order |-> x[3]] :
        x \in {y \in tables["customers"] \X tables["products"]
                       \X tables["orders"] :
                  /\ y[3].customer_id = y[1].id
                  /\ y[3].product_id = y[2].id
                  /\ y[1].has_kids # "null"}}

\* orders_query.run(query_string=query_string, ...); as_dataframe()
RunRetrainQuery ==
    /\ StoreFrame
    /\ "retrain" \notin queriesRun
    /\ retrainResult' = RetrainQuery
    /\ queriesRun' = queriesRun \cup {"retrain"}
    /\ UNCHANGED <<tables, clock, batchResult, icebergResult>>

\* limit 10000
QueryLimit == 10000

\* (mutant) the deleted rows are filtered out before the numbering
IcebergSubqueryLiveOnly == {r \in tables["orders"] : ~r.is_deleted}

\* FROM "{orders_database}"."{orders_table}" of the inner SELECT: every row
\* of the orders table.
IcebergSubquery == tables["orders"]

\* The rows row_number() OVER (PARTITION BY "order_id" ORDER BY event_time
\* desc, Api_Invocation_Time DESC, write_time DESC) can number 1: those no
\* other row of their order_id sorts before.
NumberedOne ==
    {r \in IcebergSubquery :
        \A x \in IcebergSubquery : x.id = r.id => ~SortsBefore(x, r)}

\* The Iceberg notebook's query: one row per order_id gets row_num 1 (any
\* of those that tie), then WHERE row_num = 1 and NOT is_deleted, then at
\* most QueryLimit of these rows.
RunIcebergQuery ==
    /\ StoreFrame
    /\ "iceberg" \notin queriesRun
    /\ \E first \in [{r.id : r \in NumberedOne} -> NumberedOne] :
          /\ \A i \in DOMAIN first : first[i].id = i
          /\ LET rows == {first[i] : i \in DOMAIN first}
                 live == {r \in rows : ~r.is_deleted}
             IN  \E result \in SUBSET live :
                    /\ \/ result = live
                       \/ Cardinality(result) = QueryLimit
                    /\ Cardinality(result) <= QueryLimit
                    /\ icebergResult' = result
    /\ queriesRun' = queriesRun \cup {"iceberg"}
    /\ UNCHANGED <<tables, clock, batchResult, retrainResult>>

StoreNext ==
    \/ \E t \in TableNames : PutRecord(t) \/ DeleteRecord(t)
    \/ RunBatchQuery
    \/ RunRetrainQuery

\* The orders table of the Iceberg notebook and its query.
IcebergQueryNext ==
    \/ PutRecord("orders")
    \/ DeleteRecord("orders")
    \/ RunIcebergQuery

(***************************************************************************)
(* Iceberg notebook: the compaction script smfs_offline_compaction.py      *)
(* (the script as the notebook describes it; the notebook's cell runs it)  *)
(***************************************************************************)

\* What the compaction script never touches.
CompactionFrame ==
    UNCHANGED <<icebergVars, updateVars, searchVars, columnVars,
                processingVars, storeVars,
                metadataVars, fsetsVars>>

CompactionIdle ==
    /\ cpPc = "idle"
    /\ cpTable = "none"
    /\ athenaLog = <<>>
    /\ uncompacted = 0

\* Before the cell that runs the script: the table has some partitions to
\* compact.
CompactionInit ==
    /\ cpPc = "idle"
    /\ cpTable = "none"
    /\ athenaLog = <<>>
    /\ uncompacted \in 0..MaxPartitions

\* The last query the script issued.
LastQuery == athenaLog[Len(athenaLog)]

\* The log with the outcome of the last query set.
Ended(state, error) ==
    [athenaLog EXCEPT ![Len(athenaLog)].state = state,
                      ![Len(athenaLog)].error = error]

\* !python smfs_offline_compaction.py ... --table {orders_table} ...
RunCompactionScript ==
    /\ CompactionFrame
    /\ cpPc = "idle"
    /\ cpTable' = "orders_table"
    /\ cpPc' = "optimize"
    /\ UNCHANGED <<athenaLog, uncompacted>>

\* The script executes the OPTIMIZE query using boto3.
StartOptimize ==
    /\ CompactionFrame
    /\ cpPc = "optimize"
    /\ athenaLog' = Append(athenaLog,
                           [query |-> "OPTIMIZE", table |-> cpTable,
                            state |-> "QUEUED", error |-> "none"])
    /\ cpPc' = "wait_optimize"
    /\ UNCHANGED <<cpTable, uncompacted>>

\* Athena starts the query it was given.
AthenaStartsQuery ==
    /\ CompactionFrame
    /\ athenaLog # <<>>
    /\ LastQuery.state = "QUEUED"
    /\ athenaLog' = Ended("RUNNING", "none")
    /\ UNCHANGED <<cpPc, cpTable, uncompacted>>

\* The query has reached a final state.
QueryEnded(q) == q.state \in {"SUCCEEDED", "FAILED", "CANCELLED"}

\* Athena ends the OPTIMIZE query: it compacted some partitions within the
\* query timeout and succeeds when none is left, fails with
\* ICEBERG_OPTIMIZE_MORE_RUNS_NEEDED when some are, or fails otherwise.
AthenaOptimizeEnds ==
    /\ CompactionFrame
    /\ athenaLog # <<>>
    /\ LastQuery.query = "OPTIMIZE"
    /\ LastQuery.state = "RUNNING"
    /\ \/ /\ uncompacted = 0
          /\ athenaLog' = Ended("SUCCEEDED", "none")
          /\ UNCHANGED uncompacted
       \/ \E done \in 1..uncompacted :
             /\ uncompacted' = uncompacted - done
             /\ athenaLog' =
                   IF done = uncompacted
                   THEN Ended("SUCCEEDED", "none")
                   ELSE Ended("FAILED", "ICEBERG_OPTIMIZE_MORE_RUNS_NEEDED")
       \/ /\ \/ athenaLog' = Ended("FAILED", "OTHER")
             \/ athenaLog' = Ended("CANCELLED", "none")
          /\ UNCHANGED uncompacted
    /\ UNCHANGED <<cpPc, cpTable>>

\* (mutant) the error is not handled
MoreRunsNeededIgnored(q) == FALSE

\* The error message ICEBERG_OPTIMIZE_MORE_RUNS_NEEDED.
MoreRunsNeeded(q) ==
    q.state = "FAILED" /\ q.error = "ICEBERG_OPTIMIZE_MORE_RUNS_NEEDED"

\* (mutant) VACUUM follows any OPTIMIZE that has ended
OptimizeEnded(q) == QueryEnded(q)

\* "if the OPTIMIZE query is successful"
OptimizeSuccessful(q) == q.state = "SUCCEEDED"

\* The script reads the outcome of OPTIMIZE: it resumes compaction on
\* ICEBERG_OPTIMIZE_MORE_RUNS_NEEDED, goes on to VACUUM on success and stops
\* on any other failure.
HandleOptimizeOutcome ==
    /\ CompactionFrame
    /\ cpPc = "wait_optimize"
    /\ QueryEnded(LastQuery)
    /\ cpPc' = IF MoreRunsNeeded(LastQuery) THEN "optimize"
               ELSE IF OptimizeSuccessful(LastQuery) THEN "vacuum"
               ELSE "exited"
    /\ UNCHANGED <<cpTable, athenaLog, uncompacted>>

\* It executes the VACUUM query.
StartVacuum ==
    /\ CompactionFrame
    /\ cpPc = "vacuum"
    /\ athenaLog' = Append(athenaLog,
                           [query |-> "VACUUM", table |-> cpTable,
                            state |-> "QUEUED", error |-> "none"])
    /\ cpPc' = "wait_vacuum"
    /\ UNCHANGED <<cpTable, uncompacted>>

\* Athena ends the VACUUM query.
AthenaVacuumEnds ==
    /\ CompactionFrame
    /\ athenaLog # <<>>
    /\ LastQuery.query = "VACUUM"
    /\ LastQuery.state = "RUNNING"
    /\ \/ athenaLog' = Ended("SUCCEEDED", "none")
       \/ athenaLog' = Ended("FAILED", "OTHER")
    /\ UNCHANGED <<cpPc, cpTable, uncompacted>>

\* The script ends after VACUUM.
CompactionScriptEnds ==
    /\ CompactionFrame
    /\ cpPc = "wait_vacuum"
    /\ QueryEnded(LastQuery)
    /\ cpPc' = "exited"
    /\ UNCHANGED <<cpTable, athenaLog, uncompacted>>

CompactionNext ==
    \/ RunCompactionScript
    \/ StartOptimize
    \/ AthenaStartsQuery
    \/ AthenaOptimizeEnds
    \/ HandleOptimizeOutcome
    \/ StartVacuum
    \/ AthenaVacuumEnds
    \/ CompactionScriptEnds

(***************************************************************************)
(* Feature-metadata notebook: update_feature_metadata on 'is_married'      *)
(***************************************************************************)

\* What the metadata cells never touch.
MetadataFrame ==
    UNCHANGED <<icebergVars, updateVars, searchVars, columnVars,
                processingVars, storeVars, compactionVars, fsetsVars>>

MetadataIdle ==
    /\ featureMetadata = <<>>
    /\ described = <<>>
    /\ mdPc = "idle"

\* Description="boolean value whether the customer is married or not"
NewDescription == "boolean value whether the customer is married or not"

\* (mutant) only the first parameter is added
ParameterAdditionsTeamOnly == [Key \in {"team"} |-> "mlops"]

\* ParameterAdditions=[{team: mlops}, {org: customer product team}]
ParameterAdditions ==
    [Key \in {"team", "org"} |->
        IF Key = "team" THEN "mlops" ELSE "customer product team"]

\* The feature before the notebook: no or some description, and any of the
\* parameters team, org, sensitivity with earlier values.
MetadataInit ==
    /\ \E desc \in {"", "married"},
          keys \in SUBSET {"team", "org", "sensitivity"} :
          \E params \in [keys -> {"mlops", "earlier"}] :
              featureMetadata = [Description |-> desc, Parameters |-> params]
    /\ described = <<>>
    /\ mdPc = "update_description"

\* The service's UpdateFeatureMetadata: a given description replaces the
\* old one, the added parameters are set, everything else is kept.
UpdateFeatureMetadata(meta, request) ==
    [Description |->
        IF "Description" \in DOMAIN request
        THEN request.Description ELSE meta.Description,
     Parameters |->
        IF "ParameterAdditions" \in DOMAIN request
        THEN [k \in DOMAIN meta.Parameters \cup DOMAIN request.ParameterAdditions |->
                 IF k \in DOMAIN request.ParameterAdditions
                 THEN request.ParameterAdditions[k]
                 ELSE meta.Parameters[k]]
        ELSE meta.Parameters]

\* update_feature_metadata(FeatureName="is_married", Description=...)
UpdateDescription ==
    /\ MetadataFrame
    /\ mdPc = "update_description"
    /\ featureMetadata' =
          UpdateFeatureMetadata(featureMetadata,
                                [Description |-> NewDescription])
    /\ mdPc' = "describe_1"
    /\ UNCHANGED described

\* describe_feature_metadata(FeatureName="is_married"), both cells
DescribeFeatureMetadata ==
    /\ MetadataFrame
    /\ mdPc \in {"describe_1", "describe_2"}
    /\ described' = Append(described, featureMetadata)
    /\ mdPc' = IF mdPc = "describe_1" THEN "update_parameters" ELSE "done"
    /\ UNCHANGED featureMetadata

\* update_feature_metadata(FeatureName="is_married", ParameterAdditions=...)
UpdateParameters ==
    /\ MetadataFrame
    /\ mdPc = "update_parameters"
    /\ featureMetadata' =
          UpdateFeatureMetadata(featureMetadata,
                                [ParameterAdditions |-> ParameterAdditions])
    /\ mdPc' = "describe_2"
    /\ UNCHANGED described

MetadataNext == UpdateDescription \/ DescribeFeatureMetadata \/ UpdateParameters

(***************************************************************************)
(* Batch-scoring notebook: generate_fsets on any arguments                 *)
(***************************************************************************)

\* What a call of generate_fsets never touches.
FsetsFrame ==
    UNCHANGED <<icebergVars, updateVars, searchVars, columnVars,
                processingVars, storeVars, compactionVars, metadataVars>>

FsetsIdle ==
    /\ fsFgList = <<>>
    /\ fsExclude = [none |-> TRUE, names |-> {}]
    /\ fsets_df = <<>>
    /\ fsPc = "idle"

\* Two feature groups with any definitions, any list of them and any
\* exclude list (None included) as the arguments.
FsetsInit ==
    /\ featureDefinitions \in
          [{"orders", "customers"} ->
              UNION {[1..k -> {"id", "event_time", "feature"}] :
                        k \in 1..MaxDefinitions}]
    /\ features_names = <<>>
    /\ select_list = <<>>
    /\ dataset_columns = <<>>
    /\ model_columns = <<>>
    /\ colPc = "idle"
    /\ fsFgList \in UNION {[1..k -> {"orders", "customers"}] : k \in 0..MaxGroups}
    /\ \/ fsExclude = [none |-> TRUE, names |-> {}]
       \/ \E names \in SUBSET {"id", "event_time", "feature"} :
             fsExclude = [none |-> FALSE, names |-> names]
    /\ fsets_df = <<>>
    /\ fsPc = "called"

\* generate_fsets(fg_list, exclude_fsets) called with these arguments: None
\* is as false as the empty list in 'if exclude_fsets:', and pd.concat of an
\* empty list of frames raises ValueError.
CallGenerateFsets ==
    /\ FsetsFrame
    /\ fsPc = "called"
    /\ IF fsFgList = <<>>
       THEN fsPc' = "raised" /\ UNCHANGED fsets_df
       ELSE /\ fsets_df' =
                  generate_fsets(fsFgList,
                                 IF fsExclude.none THEN {} ELSE fsExclude.names)
            /\ fsPc' = "returned"
    /\ UNCHANGED <<fsFgList, fsExclude>>

(***************************************************************************)
(* Specifications                                                          *)
(***************************************************************************)
Idle ==
    /\ SearchIdle /\ ColumnIdle /\ ProcessingIdle /\ StoreIdle
    /\ CompactionIdle /\ MetadataIdle /\ FsetsIdle

InitIceberg == IcebergInit /\ UpdateInit /\ Idle

SpecIceberg == InitIceberg /\ [][IcebergNext]_vars

\* The same, the wait function running on (sleep returns, describe answers).
FairSpecIceberg ==
    SpecIceberg /\ WF_vars(WaitInitialDescribe \/ WaitPoll \/ WaitFinish)

InitUpdate == UpdateInit /\ IcebergInit /\ Idle

SpecUpdate == InitUpdate /\ [][UpdateNext]_vars

InitSearch ==
    /\ SearchInit /\ IcebergInit /\ UpdateInit
    /\ ColumnIdle /\ ProcessingIdle /\ StoreIdle /\ CompactionIdle
    /\ MetadataIdle /\ FsetsIdle

SpecSearch == InitSearch /\ [][SearchNext]_vars

InitColumns ==
    /\ ColumnInit /\ IcebergInit /\ UpdateInit
    /\ SearchIdle /\ ProcessingIdle /\ StoreIdle /\ CompactionIdle
    /\ MetadataIdle /\ FsetsIdle

SpecColumns == InitColumns /\ [][ColumnNext]_vars

InitProcessing ==
    /\ ProcessingInit /\ IcebergInit /\ UpdateInit
    /\ SearchIdle /\ ColumnIdle /\ StoreIdle /\ CompactionIdle
    /\ MetadataIdle /\ FsetsIdle

SpecProcessing == InitProcessing /\ [][ProcessingNext]_vars

InitOfflineStore ==
    /\ StoreInit /\ IcebergInit /\ UpdateInit
    /\ SearchIdle /\ ColumnIdle /\ ProcessingIdle /\ CompactionIdle
    /\ MetadataIdle /\ FsetsIdle

SpecOfflineStore == InitOfflineStore /\ [][StoreNext]_vars

SpecIcebergQuery == InitOfflineStore /\ [][IcebergQueryNext]_vars

InitCompaction ==
    /\ CompactionInit /\ IcebergInit /\ UpdateInit
    /\ SearchIdle /\ ColumnIdle /\ ProcessingIdle /\ StoreIdle
    /\ MetadataIdle /\ FsetsIdle

SpecCompaction == InitCompaction /\ [][CompactionNext]_vars

InitMetadata ==
    /\ MetadataInit /\ IcebergInit /\ UpdateInit
    /\ SearchIdle /\ ColumnIdle /\ ProcessingIdle /\ StoreIdle
    /\ CompactionIdle /\ FsetsIdle

SpecMetadata == InitMetadata /\ [][MetadataNext]_vars

InitFsets ==
    /\ FsetsInit /\ IcebergInit /\ UpdateInit
    /\ SearchIdle /\ ProcessingIdle /\ StoreIdle
    /\ CompactionIdle /\ MetadataIdle

SpecFsets == InitFsets /\ [][CallGenerateFsets]_vars

\* The script runs to its end and Athena ends every query it is given.
FairSpecCompaction == SpecCompaction /\ WF_vars(CompactionNext)

(***************************************************************************)
(* Properties                                                              *)
(***************************************************************************)

\* C1: wait_for_feature_group_creation_complete returns normally only if the
\* last FeatureGroupStatus it read from describe() is 'Created'; whenever it
\* ends by SystemExit the last status read is neither 'Creating' nor 'Created'.
C1_ReturnsOnlyOnCreated ==
    /\ waitPc = "returned" => status = "Created"
    /\ waitPc = "exited" => status \notin {"Creating", "Created"}

\* C1 witness: the function returned after polling through 'Creating'.
C1_Witness == waitPc = "returned" /\ creatingSeen > 0 /\ describeCalls > 1

\* C2: orders_fg.ingest is called only after the wait function has returned
\* with status 'Created'; it is never called while the group is being created,
\* after a failed creation, or after the wait cell raised.
C2_IngestOnlyAfterCreated ==
    /\ ingestCalls > 0 => (waitPc = "returned" /\ status = "Created")
    /\ ingestCalls > 0 => ingestStatus \notin {"None", "Creating", "CreateFailed"}
    /\ waitPc \in {"exited", "raised"} => ingestCalls = 0

\* C2 witness: ingest ran on a created group after the wait loop polled.
C2_Witness == ingestCalls = 1 /\ ingestStatus = "Created" /\ creatingSeen > 0

C9_StoredEndpointExists ==
    lineage_endpoint_name # "unset" =>
        /\ lineage_endpoint_name \in DOMAIN endpoints
        /\ lineage_endpoint_name \in DOMAIN endpointConfigs
        /\ endpointConfigs[lineage_endpoint_name] \in models

RECURSIVE Occurrences(_, _)
Occurrences(rows, r) ==
    IF rows = <<>> THEN 0
    ELSE (IF Head(rows) = r THEN 1 ELSE 0) + Occurrences(Tail(rows), r)

\* How often row r occurs in the files of a mapping from keys to rows.
RECURSIVE OccurrencesIn(_, _)
OccurrencesIn(files, r) ==
    IF DOMAIN files = {} THEN 0
    ELSE LET k == CHOOSE x \in DOMAIN files : TRUE
         IN  Occurrences(files[k], r) + OccurrencesIn(Without(files, k), r)

\* C8: when the processing job has completed on its 2 instances, each
\* instance has written one file dataset-<uuid>.csv, no output file was
\* overwritten (there are as many objects as instances), and every row occurs
\* in the output files as often as in the Athena result.
C8_RowsPreserved ==
    jobStatus = "Completed" =>
        /\ \A i \in Instances :
              \E u \in Uuids :
                  /\ DOMAIN localOutput[i] = {DatasetFileName(u)}
                  /\ DatasetFileName(u) \in DOMAIN s3Output
                  /\ s3Output[DatasetFileName(u)] = localOutput[i][DatasetFileName(u)]
        /\ Cardinality(DOMAIN s3Output) = InstanceCount
        /\ \A r \in RowValues :
              OccurrencesIn(s3Output, r) = OccurrencesIn(athenaFiles, r)

\* C8 witness: a completed job in which both instances wrote rows and the
\* result held the same row twice.
C8_Witness ==
    /\ jobStatus = "Completed"
    /\ \A i \in Instances : dataset[i] # <<>>
    /\ \E r \in RowValues : OccurrencesIn(athenaFiles, r) = 2

\* The latest version of a record: the row that sorts before every other
\* row of its identifier in the table.
IsLatest(r, t) ==
    /\ r \in tables[t]
    /\ \A x \in tables[t] : (x.id = r.id /\ x # r) => SortsBefore(r, x)

\* C4: the batch-scoring query takes only the latest version of a record:
\* for each table, the row that contributes to a result row is the one with
\* the greatest (event time, api_invocation_time, write_time) among all rows
\* of its identifier.
C4_OnlyLatestVersionContributes ==
    "batch" \in queriesRun =>
        \A res \in batchResult :
            /\ \E r \in tables["customers"] :
                  r.features = res.customer_features /\ IsLatest(r, "customers")
            /\ \E r \in tables["products"] :
                  r.features = res.product_features /\ IsLatest(r, "products")
            /\ \E r \in tables["orders"] :
                  r.features = res.order_features /\ IsLatest(r, "orders")

\* C5: the retraining query returns only the latest ingested data: at most
\* one version of each customer, product and order appears in its result,
\* so no two result rows are for the same order.
C5_OneVersionPerIdentifier ==
    "retrain" \in queriesRun =>
        \A a, b \in retrainResult :
            a.order.id = b.order.id => a = b

\* C11: VACUUM is issued only after an OPTIMIZE query on the same table has
\* finished successfully: the query before every VACUUM is an OPTIMIZE of
\* that table that succeeded, never one that failed.
C11_VacuumOnlyAfterSuccessfulOptimize ==
    \A i \in DOMAIN athenaLog :
        athenaLog[i].query = "VACUUM" =>
            /\ i > 1
            /\ athenaLog[i - 1].query = "OPTIMIZE"
            /\ athenaLog[i - 1].table = athenaLog[i].table
            /\ athenaLog[i - 1].state = "SUCCEEDED"

\* C11 witness: VACUUM was issued after an OPTIMIZE that succeeded on its
\* second run.
C11_Witness ==
    /\ Len(athenaLog) = 3
    /\ athenaLog[1].state = "FAILED"
    /\ athenaLog[2].state = "SUCCEEDED"
    /\ athenaLog[3].query = "VACUUM"

\* C12: whenever an OPTIMIZE run ends with ICEBERG_OPTIMIZE_MORE_RUNS_NEEDED
\* another OPTIMIZE run on the same table follows, and once an OPTIMIZE run
\* succeeds the script reaches VACUUM.
C12_MoreRunsThenOptimizeAgain ==
    /\ \A n \in 1..(MaxPartitions + 1) :
          (/\ Len(athenaLog) = n
           /\ athenaLog[n].error = "ICEBERG_OPTIMIZE_MORE_RUNS_NEEDED")
              ~> (/\ Len(athenaLog) > n
                  /\ athenaLog[n + 1].query = "OPTIMIZE"
                  /\ athenaLog[n + 1].table = athenaLog[n].table)
    /\ \A n \in 1..(MaxPartitions + 1) :
          (/\ Len(athenaLog) = n
           /\ athenaLog[n].query = "OPTIMIZE"
           /\ athenaLog[n].state = "SUCCEEDED")
              ~> (Len(athenaLog) > n /\ athenaLog[n + 1].query = "VACUUM")

\* C12 witness: two OPTIMIZE runs ended with the error, a third succeeded and
\* VACUUM has run.
C12_Witness ==
    /\ Len(athenaLog) = 4
    /\ athenaLog[1].error = "ICEBERG_OPTIMIZE_MORE_RUNS_NEEDED"
    /\ athenaLog[2].error = "ICEBERG_OPTIMIZE_MORE_RUNS_NEEDED"
    /\ athenaLog[3].query = "OPTIMIZE"
    /\ athenaLog[4].query = "VACUUM"
    /\ cpPc = "exited"

\* C13: after the two updates of 'is_married', describe_feature_metadata
\* shows the new description and the parameters team and org: the second
\* update adds the parameters, keeps the other parameters and leaves the
\* description of the first update unchanged.
C13_DescriptionKeptParametersAdded ==
    /\ Len(described) >= 1 =>
          described[1].Description =
              "boolean value whether the customer is married or not"
    /\ Len(described) = 2 =>
          /\ described[2].Description = described[1].Description
          /\ {"team", "org"} \subseteq DOMAIN described[2].Parameters
          /\ described[2].Parameters["team"] = "mlops"
          /\ described[2].Parameters["org"] = "customer product team"
          /\ \A k \in DOMAIN described[1].Parameters \ {"team", "org"} :
                /\ k \in DOMAIN described[2].Parameters
                /\ described[2].Parameters[k] = described[1].Parameters[k]
          /\ DOMAIN described[2].Parameters \subseteq
                DOMAIN described[1].Parameters \cup {"team", "org"}

\* C13 witness: both describes done on a feature that had another
\* description, an earlier team and a sensitivity parameter, and no org.
C13_Witness ==
    /\ mdPc = "done"
    /\ Len(described) = 2
    /\ DOMAIN described[1].Parameters = {"team", "sensitivity"}
    /\ described[1].Parameters["team"] = "earlier"

\* The definitions of group g that a call with the given exclude list keeps.
Kept(g) ==
    LET NotExcluded(n) == fsExclude.none \/ n \notin fsExclude.names
    IN  SelectSeq(featureDefinitions[g], NotExcluded)

\* C14: generate_fsets returns exactly the definitions of the listed groups
\* whose FeatureName is not in exclude_fsets, in the order of fg_list and,
\* within a group, of its FeatureDefinitions; with exclude_fsets None or
\* empty nothing is removed.  (With an empty fg_list the call raises.)
C14_GenerateFsetsKeepsOrder ==
    /\ fsPc = "raised" => fsFgList = <<>>
    /\ fsPc = "returned" =>
          /\ LET lens == [i \in DOMAIN fsFgList |-> Len(Kept(fsFgList[i]))]
                 start(i) == IF i = 1 THEN 0
                             ELSE IF i = 2 THEN lens[1]
                             ELSE IF i = 3 THEN lens[1] + lens[2]
                             ELSE lens[1] + lens[2] + lens[3]
             IN  /\ Len(fsets_df) = start(Len(fsFgList) + 1)
                 /\ \A i \in DOMAIN fsFgList :
                       SubSeq(fsets_df, start(i) + 1, start(i) + lens[i])
                           = Kept(fsFgList[i])
          /\ (fsExclude.none \/ fsExclude.names = {}) =>
                \A i \in DOMAIN fsFgList :
                    \A n \in Range(featureDefinitions[fsFgList[i]]) :
                        n \in Range(fsets_df)

\* C14 witness: a call on two groups that removed a name from one of them
\* and kept a name twice.
C14_Witness ==
    /\ fsPc = "returned"
    /\ Len(fsFgList) = 2
    /\ fsFgList[1] # fsFgList[2]
    /\ ~fsExclude.none
    /\ Len(fsets_df) = 3
    /\ fsets_df[1] = fsets_df[3]
    /\ Len(featureDefinitions[fsFgList[1]]) = 2
    /\ Len(featureDefinitions[fsFgList[2]]) = 2

\* C15: wait_for_feature_group_creation_complete ends, by returning or by
\* SystemExit, once the status is no longer 'Creating' (by describe's
\* exception only if the group has been deleted meanwhile); it never ends
\* while the status it read is 'Creating', and when it ends describe has been
\* called once more than the number of 'Creating' statuses it read.
C15_WaitTerminatesAfterCreating ==
    /\ [](waitPc \in {"returned", "exited"} =>
             /\ status # "Creating"
             /\ describeCalls = creatingSeen + 1)
    /\ [](waitPc = "loop" => describeCalls >= creatingSeen)
    /\ [](waitPc = "raised" => fgStatus = "Deleted")
    /\ (waitPc = "loop" /\ fgStatus # "Creating")
          ~> (waitPc \in {"returned", "exited", "raised"})

\* C15 witness: the function returned after reading 'Creating' three times.
C15_Witness ==
    /\ waitPc = "returned"
    /\ creatingSeen = 3
    /\ describeCalls = 4

\* C16: the Iceberg notebook's query returns at most one row per order_id,
\* the one first in the order event_time, Api_Invocation_Time, write_time
\* descending among all rows of the order_id; an order_id whose newest row is
\* marked deleted yields no row, not an older version.
C16_LatestRowOrNone ==
    "iceberg" \in queriesRun =>
        /\ \A a, b \in icebergResult : a.id = b.id => a = b
        /\ \A r \in icebergResult :
              /\ r \in tables["orders"]
              /\ ~r.is_deleted
              /\ \A x \in tables["orders"] :
                    (x.id = r.id /\ x # r) =>
                        \/ r.event_time > x.event_time
                        \/ /\ r.event_time = x.event_time
                           /\ r.api_invocation_time > x.api_invocation_time
                        \/ /\ r.event_time = x.event_time
                           /\ r.api_invocation_time = x.api_invocation_time
                           /\ r.write_time > x.write_time
        /\ \A newest \in tables["orders"] :
              (/\ newest.is_deleted
               /\ \A x \in tables["orders"] :
                     (x.id = newest.id /\ x # newest) =>
                         \/ newest.event_time > x.event_time
                         \/ /\ newest.event_time = x.event_time
                            /\ newest.api_invocation_time
                                  > x.api_invocation_time
                         \/ /\ newest.event_time = x.event_time
                            /\ newest.api_invocation_time
                                  = x.api_invocation_time
                            /\ newest.write_time > x.write_time)
                  => \A r \in icebergResult : r.id # newest.id

\* C16 witness: the query ran on an order with two older versions and a
\* newest row marked deleted, and returned nothing.
C16_Witness ==
    /\ "iceberg" \in queriesRun
    /\ icebergResult = {}
    /\ Cardinality(tables["orders"]) = 3
    /\ \E r \in tables["orders"] : r.is_deleted /\ r.event_time = MaxEventTime

====
